---- MODULE Spec2Model ----
(***************************************************************************)
(* Model of benjief/award-seat-alerts: src/award_search.py (the notifying  *)
(* variant, six parameter sets, inclusive threshold, source and carrier    *)
(* constraints) and src/main.py (the console-only variant, strict          *)
(* threshold).                                                             *)
(*                                                                         *)
(* JSON values read from the search API are modelled by a kind tag `t`     *)
(* and an integer payload `v`; Python's truthiness and int() are operators *)
(* over those values.  A Python exception is modelled by its class name,   *)
(* "None" meaning that no exception was raised.                            *)
(***************************************************************************)
EXTENDS Integers, Sequences, FiniteSets

VARIABLES pc, idx, threshold, response_text, flights_list, filtered_flights,
          message_body, exc, fetches, sends, failed

vars == <<pc, idx, threshold, response_text, flights_list, filtered_flights,
          message_body, exc, fetches, sends, failed>>

(***************************************************************************)
(* Bounds of the model.                                                    *)
(***************************************************************************)
\* longest batch handed to filter_flights when it is checked on its own
MaxBatch == 2
\* longest `data` array of a response in the driver loop
MaxDriverBatch == 1
\* longest filtered list handed to send_sms_notification on its own
MaxFlights == 11

(***************************************************************************)
(* Program constants.                                                      *)
(***************************************************************************)
\* award_search.py: sorted(...)[:10]
TopN == 10
\* main.py: mileage_threshold = 90000
MainThreshold == 90000
\* award_search.py: the "mileage_threshold" of the six parameter sets
parameter_sets == <<80000, 110000, 120000, 120000, 60000, 50000>>
NumSets == Len(parameter_sets)

(***************************************************************************)
(* JSON values and the Python operations the code applies to them.         *)
(***************************************************************************)
Absent   == [t |-> "absent", v |-> 0]      \* key missing: .get() gives None
Null     == [t |-> "null", v |-> 0]
JTrue    == [t |-> "bool", v |-> 1]
JFalse   == [t |-> "bool", v |-> 0]
JInt(n)  == [t |-> "int", v |-> n]
NumStr(n) == [t |-> "numstr", v |-> n]     \* a string int() accepts, e.g. "80000"
BadStr   == [t |-> "badstr", v |-> 0]      \* a non-empty string int() rejects
JList    == [t |-> "list", v |-> 0]        \* a non-empty array

\* bool(x) as the `if` of filter_flights evaluates flight.get(key)
Truthy(x) ==
    CASE x.t = "absent" -> FALSE
      [] x.t = "null"   -> FALSE
      [] x.t = "bool"   -> x.v = 1
      [] x.t = "int"    -> x.v # 0
      [] x.t = "numstr" -> TRUE
      [] x.t = "badstr" -> TRUE
      [] x.t = "list"   -> TRUE

\* the exception int(x) raises, "None" when it returns
IntExc(x) ==
    CASE x.t \in {"int", "bool", "numstr"} -> "None"
      [] x.t = "badstr"                    -> "ValueError"
      [] OTHER                             -> "TypeError"

\* the value int(x) returns when it returns
IntOf(x) == x.v

\* carrier lists: t is "absent", "null" or "list"; codes is the list
NoAirlines     == [t |-> "absent", codes |-> <<>>]
NullAirlines   == [t |-> "null", codes |-> <<>>]
Airlines(cs)   == [t |-> "list", codes |-> cs]

\* flight.get("JAirlines", [])
GetAirlines(a) == IF a.t = "absent" THEN Airlines(<<>>) ELSE a

\* the exception `"AI" not in airlines` raises
InExc(a) == IF a.t = "null" THEN "TypeError" ELSE "None"

\* `"AI" in airlines`
HasCode(a, code) == \E i \in 1..Len(a.codes) : a.codes[i] = code

(***************************************************************************)
(* Raw flight records.  isdict is FALSE for an element of the `data` array *)
(* that is not a JSON object; Route is "dict", "absent" or "null".         *)
(***************************************************************************)
RawRecordsOver(avails, costs, sources, airlines, routes) ==
    [isdict : {TRUE}, JAvailable : avails, JMileageCost : costs,
     Source : sources, JAirlines : airlines, Route : routes]

NotADict ==
    [isdict |-> FALSE, JAvailable |-> Absent, JMileageCost |-> Absent,
     Source |-> "absent", JAirlines |-> NoAirlines, Route |-> "absent"]

\* cost fields around threshold th: missing, zero, negative, below, equal (as
\* the API's string), above, a non-numeric string, a non-numeric array
CostFields(th) ==
    {Absent, JInt(0), JInt(-1), JInt(th - 1), NumStr(th), JInt(th + 1),
     BadStr, JList}

\* the records filter_flights is checked on: every flag, cost and source
\* with an ordinary carrier list and route, and every carrier list and route
\* with a record that passes the guard
RawRecords(th) ==
    RawRecordsOver({JTrue, JFalse}, CostFields(th), {"aeroplan", "united"},
                   {Airlines(<<"AC">>)}, {"dict"})
      \cup RawRecordsOver({JTrue},
                          {JInt(th - 1), NumStr(th), JInt(th + 1), BadStr},
                          {"aeroplan"},
                          {Airlines(<<"AC">>), Airlines(<<"AC", "AI">>),
                           NullAirlines},
                          {"dict", "absent"})
      \cup {NotADict}

\* the records of a response in the driver loop
DriverRecords(th) ==
    RawRecordsOver({JTrue}, {JInt(0), NumStr(th), JInt(th + 1), BadStr},
                   {"aeroplan"}, {NoAirlines}, {"dict", "absent"})

\* sequences over S of length at most n
SeqUpTo(S, n) == UNION {[1..k -> S] : k \in 0..n}

(***************************************************************************)
(* filter_flights, both variants.  A FilteredFlight keeps the fields the   *)
(* claims read, and src, the position of its record in the input.          *)
(***************************************************************************)
FilteredFlight(cost, airlines, pos) ==
    [MileageCost |-> cost, Airlines |-> airlines, src |-> pos]

\* the exception flight["Route"].get(...) raises
RouteExc(route) ==
    CASE route = "absent" -> "KeyError"
      [] route = "null"   -> "AttributeError"
      [] OTHER            -> "None"

StepSkip      == [kind |-> "skip", exc |-> "None", ff |-> FilteredFlight(0, NoAirlines, 0)]
StepRaise(e)  == [kind |-> "raise", exc |-> e, ff |-> FilteredFlight(0, NoAirlines, 0)]
StepAppend(ff) == [kind |-> "append", exc |-> "None", ff |-> ff]

\* award_guard without the Source test
award_guard_any_source(flight) ==
    /\ Truthy(flight.JAvailable)
    /\ Truthy(flight.JMileageCost)

\* award_search.py line 42
award_guard(flight) ==
    /\ Truthy(flight.JAvailable)
    /\ Truthy(flight.JMileageCost)
    /\ flight.Source = "aeroplan"

\* award_search.py line 47, right operand
award_within(mileage_cost, th) == mileage_cost <= th

\* award_search.py line 47, left operand
award_carrier_ok(airlines) == ~HasCode(airlines, "AI")

\* one iteration of the loop of award_search.filter_flights
award_iteration(flight, th, pos) ==
    IF ~flight.isdict THEN StepRaise("AttributeError")
    ELSE IF ~award_guard(flight) THEN StepSkip
    ELSE IF IntExc(flight.JMileageCost) = "ValueError" THEN StepSkip
    ELSE IF IntExc(flight.JMileageCost) # "None"
         THEN StepRaise(IntExc(flight.JMileageCost))
    ELSE LET mileage_cost == IntOf(flight.JMileageCost)
             airlines == GetAirlines(flight.JAirlines)
         IN  IF InExc(airlines) # "None" THEN StepRaise(InExc(airlines))
             ELSE IF ~(award_carrier_ok(airlines)
                       /\ award_within(mileage_cost, th)) THEN StepSkip
             ELSE IF RouteExc(flight.Route) # "None"
                  THEN StepRaise(RouteExc(flight.Route))
             ELSE StepAppend(FilteredFlight(mileage_cost, airlines, pos))

\* main.py line 34
main_guard(flight) ==
    /\ Truthy(flight.JAvailable)
    /\ Truthy(flight.JMileageCost)

\* main.py line 37
main_within(mileage_cost, th) == mileage_cost < th

\* one iteration of the loop of main.filter_flights
main_iteration(flight, th, pos) ==
    IF ~flight.isdict THEN StepRaise("AttributeError")
    ELSE IF ~main_guard(flight) THEN StepSkip
    ELSE IF IntExc(flight.JMileageCost) = "ValueError" THEN StepSkip
    ELSE IF IntExc(flight.JMileageCost) # "None"
         THEN StepRaise(IntExc(flight.JMileageCost))
    ELSE LET mileage_cost == IntOf(flight.JMileageCost)
         IN  IF ~main_within(mileage_cost, th) THEN StepSkip
             ELSE IF RouteExc(flight.Route) # "None"
                  THEN StepRaise(RouteExc(flight.Route))
             ELSE StepAppend(FilteredFlight(mileage_cost, flight.JAirlines, pos))

\* the loop: what the call returns (out) or the exception that leaves it (exc)
RECURSIVE FilterLoop(_, _, _, _, _)
FilterLoop(variant, flights, th, pos, acc) ==
    IF pos > Len(flights) THEN [exc |-> "None", out |-> acc]
    ELSE LET r == IF variant = "award"
                  THEN award_iteration(flights[pos], th, pos)
                  ELSE main_iteration(flights[pos], th, pos)
         IN  CASE r.kind = "raise"  -> [exc |-> r.exc, out |-> <<>>]
               [] r.kind = "append" ->
                    FilterLoop(variant, flights, th, pos + 1, Append(acc, r.ff))
               [] OTHER -> FilterLoop(variant, flights, th, pos + 1, acc)

\* award_search.filter_flights
filter_flights(flights, th) == FilterLoop("award", flights, th, 1, <<>>)

\* main.filter_flights
main_filter_flights(flights, th) == FilterLoop("main", flights, th, 1, <<>>)

(***************************************************************************)
(* send_sms_notification: sorted(flights, key=MileageCost)[:10].  Python's *)
(* sorted is stable: an element goes after every element whose key is not  *)
(* greater than its own.                                                   *)
(***************************************************************************)
\* `if flights:` / `if not flights:` on a list
list_truthy(flights) == Len(flights) > 0

\* insert_position with a strict comparison: x goes before its equals
insert_position_before_equals(sorted, x) ==
    Cardinality({k \in 1..Len(sorted) : sorted[k].MileageCost < x.MileageCost})

\* where x goes in an ascending list: after the elements with key <= x's
insert_position(sorted, x) ==
    Cardinality({k \in 1..Len(sorted) : sorted[k].MileageCost <= x.MileageCost})

insert_sorted(sorted, x) ==
    LET p == insert_position(sorted, x)
    IN  SubSeq(sorted, 1, p) \o <<x>> \o SubSeq(sorted, p + 1, Len(sorted))

RECURSIVE sort_from(_, _, _)
sort_from(flights, pos, acc) ==
    IF pos > Len(flights) THEN acc
    ELSE sort_from(flights, pos + 1, insert_sorted(acc, flights[pos]))

\* sorted(flights, key=lambda x: x["MileageCost"])
sorted_by_cost(flights) == sort_from(flights, 1, <<>>)

\* [:10]
top_slice(flights) ==
    SubSeq(flights, 1, IF Len(flights) < TopN THEN Len(flights) ELSE TopN)

\* the flights the message body enumerates, in order
build_message(flights) == top_slice(sorted_by_cost(flights))

\* what the messaging library can do: the constructor raises (outside the
\* try), create() raises (caught), or the message is sent
SmsOutcomes == {"client_raises", "create_raises", "sent"}

\* send_sms_notification calling create() again after a failed create()
send_sms_notification_retrying(flights, outcome) ==
    IF ~list_truthy(flights)
    THEN [body |-> <<>>, attempted |-> 0, exc |-> "None"]
    ELSE IF outcome = "client_raises"
    THEN [body |-> build_message(flights), attempted |-> 0,
          exc |-> "TwilioException"]
    ELSE [body |-> build_message(flights),
          attempted |-> IF outcome = "create_raises" THEN 2 ELSE 1,
          exc |-> "None"]

\* send_sms_notification(flights) under one outcome of the library:
\* the body built, whether create() was called, the exception that escapes
send_sms_notification(flights, outcome) ==
    IF ~list_truthy(flights)
    THEN [body |-> <<>>, attempted |-> 0, exc |-> "None"]
    ELSE IF outcome = "client_raises"
    THEN [body |-> build_message(flights), attempted |-> 0,
          exc |-> "TwilioException"]
    ELSE [body |-> build_message(flights), attempted |-> 1, exc |-> "None"]

(***************************************************************************)
(* fetch_flights and parse_json.  A response is None (the request failed)  *)
(* or a text: empty, undecodable, JSON that is no object, an object with   *)
(* no "data", with a "data" that is no list, or with a "data" list.        *)
(***************************************************************************)
Response(kind, data) == [kind |-> kind, data |-> data]

\* the outcomes of fetch_flights for a set with threshold th
FetchOutcomes(th) ==
    {Response(k, <<>>) : k \in {"None", "empty", "undecodable", "not_object",
                                 "no_data", "data_not_list"}}
      \cup {Response("data_list", b) :
                b \in SeqUpTo(DriverRecords(th), MaxDriverBatch)}

\* `if response_text:`
text_truthy(resp) == resp.kind \notin {"None", "empty"}

\* parse_json: a text that does not decode gives {}
parse_json(resp) ==
    IF resp.kind = "undecodable" THEN Response("no_data", <<>>) ELSE resp

\* the exception data.get("data", []) raises
GetDataExc(data) ==
    IF data.kind = "not_object" THEN "AttributeError" ELSE "None"

\* isinstance(data.get("data", []), list)
data_is_list(data) == data.kind \in {"no_data", "data_list"}

\* data.get("data", []) when it is a list
get_data(data) == IF data.kind = "data_list" THEN data.data ELSE <<>>

(***************************************************************************)
(* main of award_search.py: the loop over parameter_sets.  idx is the set  *)
(* the loop is at (0 before the first); fetches[i] and sends[i] count the  *)
(* requests and the message sends of set i; failed holds the sets whose    *)
(* request raised.                                                         *)
(***************************************************************************)
NoFetches == [i \in 1..NumSets |-> 0]

Init ==
    /\ pc = "loop"
    /\ idx = 0
    /\ threshold = 0
    /\ response_text = Response("None", <<>>)
    /\ flights_list = <<>>
    /\ filtered_flights = <<>>
    /\ message_body = <<>>
    /\ exc = "None"
    /\ fetches = NoFetches
    /\ sends = NoFetches
    /\ failed = {}

\* lines 175-183 and 199-200: the next set, its threshold, its request.  The
\* names of the iteration are rebound before they are read; they are cleared
\* here.
Fetch ==
    /\ pc = "loop"
    /\ idx < NumSets
    /\ idx' = idx + 1
    /\ threshold' = parameter_sets[idx + 1]
    /\ \E resp \in FetchOutcomes(parameter_sets[idx + 1]) :
        /\ response_text' = resp
        /\ failed' = IF resp.kind = "None" THEN failed \cup {idx + 1} ELSE failed
        /\ pc' = IF text_truthy(resp) THEN "parse" ELSE "loop"
    /\ fetches' = [fetches EXCEPT ![idx + 1] = @ + 1]
    /\ flights_list' = <<>>
    /\ filtered_flights' = <<>>
    /\ message_body' = <<>>
    /\ UNCHANGED <<exc, sends>>

\* lines 184-187 and 197-198
Parse ==
    /\ pc = "parse"
    /\ LET data == parse_json(response_text)
       IN  IF GetDataExc(data) # "None"
           THEN /\ exc' = GetDataExc(data)
                /\ pc' = "crashed"
                /\ UNCHANGED flights_list
           ELSE IF data_is_list(data)
           THEN /\ flights_list' = get_data(data)
                /\ pc' = "filter"
                /\ UNCHANGED exc
           ELSE /\ pc' = "loop"
                /\ UNCHANGED <<exc, flights_list>>
    /\ UNCHANGED <<idx, threshold, response_text, filtered_flights,
                   message_body, fetches, sends, failed>>

\* line 188
Filter ==
    /\ pc = "filter"
    /\ LET r == filter_flights(flights_list, threshold)
       IN  /\ exc' = r.exc
           /\ filtered_flights' = r.out
           /\ pc' = IF r.exc = "None" THEN "report" ELSE "crashed"
    /\ UNCHANGED <<idx, threshold, response_text, flights_list, message_body,
                   fetches, sends, failed>>

\* line 189: display_flights prints and changes nothing
Report ==
    /\ pc = "report"
    /\ pc' = "notify"
    /\ UNCHANGED <<idx, threshold, response_text, flights_list,
                   filtered_flights, message_body, exc, fetches, sends, failed>>

\* lines 192-196
Notify ==
    /\ pc = "notify"
    /\ IF list_truthy(filtered_flights)
       THEN \E outcome \in SmsOutcomes :
               LET r == send_sms_notification(filtered_flights, outcome)
               IN  /\ message_body' = r.body
                   /\ sends' = [sends EXCEPT ![idx] = @ + r.attempted]
                   /\ exc' = r.exc
                   /\ pc' = IF r.exc = "None" THEN "loop" ELSE "crashed"
       ELSE /\ pc' = "loop"
            /\ UNCHANGED <<message_body, sends, exc>>
    /\ UNCHANGED <<idx, threshold, response_text, flights_list,
                   filtered_flights, fetches, failed>>

\* the loop is exhausted and main returns
Finish ==
    /\ pc = "loop"
    /\ idx = NumSets
    /\ pc' = "done"
    /\ UNCHANGED <<idx, threshold, response_text, flights_list,
                   filtered_flights, message_body, exc, fetches, sends, failed>>

Next == Fetch \/ Parse \/ Filter \/ Report \/ Notify \/ Finish

Spec == Init /\ [][Next]_vars

(***************************************************************************)
(* filter_flights on its own: any batch, then one call of either variant.  *)
(***************************************************************************)
InitFilter ==
    /\ pc = "call"
    /\ idx = 0
    /\ threshold = MainThreshold
    /\ response_text = [kind |-> "none", data |-> <<>>]
    /\ flights_list \in SeqUpTo(RawRecords(MainThreshold), MaxBatch)
    /\ filtered_flights = <<>>
    /\ message_body = <<>>
    /\ exc = "None"
    /\ fetches = NoFetches
    /\ sends = NoFetches
    /\ failed = {}

\* award_search.filter_flights(flights_list, threshold)
CallAwardFilter ==
    /\ pc = "call"
    /\ LET r == filter_flights(flights_list, threshold)
       IN  /\ filtered_flights' = r.out
           /\ exc' = r.exc
           /\ pc' = IF r.exc = "None" THEN "award_returned" ELSE "award_raised"
    /\ UNCHANGED <<idx, threshold, response_text, flights_list, message_body,
                   fetches, sends, failed>>

\* main.filter_flights(flights_list, threshold)
CallMainFilter ==
    /\ pc = "call"
    /\ LET r == main_filter_flights(flights_list, threshold)
       IN  /\ filtered_flights' = r.out
           /\ exc' = r.exc
           /\ pc' = IF r.exc = "None" THEN "main_returned" ELSE "main_raised"
    /\ UNCHANGED <<idx, threshold, response_text, flights_list, message_body,
                   fetches, sends, failed>>

NextFilter == CallAwardFilter \/ CallMainFilter

SpecFilter == InitFilter /\ [][NextFilter]_vars

(***************************************************************************)
(* Claims about filter_flights (checked under SpecFilter).                 *)
(***************************************************************************)
Returned == pc \in {"award_returned", "main_returned"}
Called   == pc # "call"
IsAward  == pc \in {"award_returned", "award_raised"}

\* record i of the input was appended to the output
Included(i) == \E j \in 1..Len(filtered_flights) : filtered_flights[j].src = i

CostPresent(flight) == flight.JMileageCost.t # "absent"
CostParses(flight)  == IntExc(flight.JMileageCost) = "None"
NonNumericCost(flight) == flight.JMileageCost.t \in {"badstr", "list"}

\* the premises of C1 for one record
C1_Premises(flight) ==
    /\ flight.isdict
    /\ Truthy(flight.JAvailable)
    /\ CostPresent(flight)
    /\ CostParses(flight)
    /\ IsAward => /\ flight.Source = "aeroplan"
                  /\ ~HasCode(GetAirlines(flight.JAirlines), "AI")

\* C1: a record whose availability flag is set, whose cost is present and
\* parses to an integer and which meets the variant's source and carrier
\* constraints is included exactly when its cost is at most the threshold
\* (award_search.py) or strictly below it (main.py).
C1_ThresholdDecidesInclusion ==
    Called =>
        \A i \in 1..Len(flights_list) :
            C1_Premises(flights_list[i]) =>
                (Included(i) <=>
                    IF IsAward
                    THEN IntOf(flights_list[i].JMileageCost) <= threshold
                    ELSE IntOf(flights_list[i].JMileageCost) < threshold)

\* C2: every FilteredFlight award_search.filter_flights returns comes from a
\* record whose availability flag is set, whose cost field is present, whose
\* Source is "aeroplan" and whose carrier list does not contain "AI".
C2_OutputMeetsConstraints ==
    pc = "award_returned" =>
        \A j \in 1..Len(filtered_flights) :
            LET i == filtered_flights[j].src
            IN  /\ i \in 1..Len(flights_list)
                /\ flights_list[i].isdict
                /\ Truthy(flights_list[i].JAvailable)
                /\ CostPresent(flights_list[i])
                /\ flights_list[i].Source = "aeroplan"
                /\ ~HasCode(GetAirlines(flights_list[i].JAirlines), "AI")

\* C2 witness: a call returned a flight while leaving out a record whose cost
\* qualifies but whose source differs, and one whose carrier list holds "AI".
C2_Witness ==
    /\ pc = "award_returned"
    /\ Len(filtered_flights) = 1
    /\ \E i \in 1..Len(flights_list) :
        /\ ~Included(i)
        /\ Truthy(flights_list[i].JAvailable)
        /\ CostParses(flights_list[i])
        /\ IntOf(flights_list[i].JMileageCost) = threshold
        /\ \/ flights_list[i].Source # "aeroplan"
           \/ HasCode(GetAirlines(flights_list[i].JAirlines), "AI")

\* the batch without its k-th record
RemoveAt(seq, k) ==
    [i \in 1..(Len(seq) - 1) |-> IF i < k THEN seq[i] ELSE seq[i + 1]]

\* the output of a call on the batch without record k, with the positions of
\* the batch that holds it
Reinserted(out, k) ==
    [j \in 1..Len(out) |->
        [out[j] EXCEPT !.src = IF out[j].src >= k THEN out[j].src + 1
                                ELSE out[j].src]]

\* C3: a record whose cost field is non-numeric is left out, no exception
\* leaves filter_flights because of it, and the call ends as it would on the
\* batch without that record.
C3_NonNumericCostIsSkipped ==
    Called =>
        \A k \in 1..Len(flights_list) :
            NonNumericCost(flights_list[k]) =>
                LET rest == RemoveAt(flights_list, k)
                    r == IF IsAward THEN filter_flights(rest, threshold)
                         ELSE main_filter_flights(rest, threshold)
                IN  /\ ~Included(k)
                    /\ exc = r.exc
                    /\ filtered_flights = Reinserted(r.out, k)

\* C4: the MileageCost of every returned FilteredFlight is a non-negative
\* integer parsed from the cost field of its source record.
C4_CostIsNonNegativeParsedInteger ==
    Returned =>
        \A j \in 1..Len(filtered_flights) :
            LET i == filtered_flights[j].src
            IN  /\ CostParses(flights_list[i])
                /\ filtered_flights[j].MileageCost
                       = IntOf(flights_list[i].JMileageCost)
                /\ filtered_flights[j].MileageCost >= 0

(***************************************************************************)
(* send_sms_notification on its own: any filtered list, then one call.     *)
(***************************************************************************)
NotifyCosts == {30000, 45000}

\* filtered lists: any costs, src the position in the list
FilteredLists ==
    {[i \in 1..Len(c) |-> FilteredFlight(c[i], Airlines(<<"AC">>), i)] :
        c \in SeqUpTo(NotifyCosts, MaxFlights)}

InitNotify ==
    /\ pc = "sms_call"
    /\ idx = 1
    /\ threshold = MainThreshold
    /\ response_text = Response("None", <<>>)
    /\ flights_list = <<>>
    /\ filtered_flights \in FilteredLists
    /\ message_body = <<>>
    /\ exc = "None"
    /\ fetches = NoFetches
    /\ sends = NoFetches
    /\ failed = {}

\* send_sms_notification(filtered_flights)
CallSendSms ==
    /\ pc = "sms_call"
    /\ \E outcome \in SmsOutcomes :
        LET r == send_sms_notification(filtered_flights, outcome)
        IN  /\ message_body' = r.body
            /\ sends' = [sends EXCEPT ![idx] = @ + r.attempted]
            /\ exc' = r.exc
            /\ pc' = IF r.exc = "None" THEN "sms_returned" ELSE "sms_raised"
    /\ UNCHANGED <<idx, threshold, response_text, flights_list,
                   filtered_flights, fetches, failed>>

NextNotify == CallSendSms

SpecNotify == InitNotify /\ [][NextNotify]_vars

(***************************************************************************)
(* Claims about send_sms_notification (checked under SpecNotify).          *)
(***************************************************************************)
Min(a, b) == IF a < b THEN a ELSE b

InBody(i) == \E a \in 1..Len(message_body) : message_body[a].src = i

Ended == pc \in {"done", "crashed"}

\* C6: a failed request skips the stages of its own set only: nothing is
\* filtered or sent for it, and every later set is still fetched.
C6_FetchFailureSkipsOnlyItsSet ==
    /\ \A i \in failed : sends[i] = 0
    /\ (idx \in failed) => (filtered_flights = <<>> /\ pc \in {"loop", "done"})
    /\ Ended => \A i \in failed : \A j \in (i + 1)..NumSets : fetches[j] = 1

\* C7: no error is fatal: no exception escapes main, and the run ends with
\* every parameter set processed.
C7_NoErrorIsFatal ==
    /\ exc = "None"
    /\ pc # "crashed"
    /\ Ended => (idx = NumSets /\ \A i \in 1..NumSets : fetches[i] = 1)

\* C8: a send is attempted only for a non-empty filtered list and at most
\* once per parameter set; an empty data array gives an empty filtered list
\* and no send.
C8_SendOnlyOncePerNonEmptyList ==
    /\ [](\A i \in 1..NumSets : sends[i] <= 1 /\ (i > idx => sends[i] = 0))
    /\ [][/\ sends' # sends =>
               /\ pc = "notify"
               /\ Len(filtered_flights) > 0
               /\ sends' = [sends EXCEPT ![idx] = 1]
          /\ (pc \in {"report", "notify"} /\ flights_list = <<>>) =>
               /\ filtered_flights = <<>>
               /\ sends' = sends]_vars

\* C8 witness: set 1 sent a message, set 2 answered with an empty data array
\* and went through the loop body without a send.
C8_Witness ==
    /\ pc = "loop"
    /\ idx = 2
    /\ sends[1] = 1
    /\ sends[2] = 0
    /\ response_text = Response("data_list", <<>>)

BadShapes == {"undecodable", "not_object", "no_data", "data_not_list"}

\* C9: a response that does not decode, or decodes to a structure without a
\* "data" field or with one that is no sequence, gives no FilteredFlight, no
\* message and no exception for its set.
C9_BadShapeIsTreatedAsEmpty ==
    (idx >= 1 /\ pc # "parse" /\ response_text.kind \in BadShapes) =>
        /\ pc # "crashed"
        /\ exc = "None"
        /\ filtered_flights = <<>>
        /\ message_body = <<>>
        /\ sends[idx] = 0

\* C10: one fetch per configured parameter set, in list order, none twice,
\* each set filtered with its own threshold.
C10_OneFetchPerSetInOrder ==
    /\ \A i \in 1..NumSets : fetches[i] = (IF i <= idx THEN 1 ELSE 0)
    /\ idx >= 1 => threshold = parameter_sets[idx]
    /\ Ended => \A i \in 1..NumSets : fetches[i] = 1

\* the stages of one set follow one another, and the next set starts only
\* from the loop head
StageOrder ==
    [][/\ pc' # pc =>
            \/ pc = "loop" /\ pc' \in {"parse", "done"}
            \/ pc = "parse" /\ pc' \in {"filter", "loop", "crashed"}
            \/ pc = "filter" /\ pc' \in {"report", "crashed"}
            \/ pc = "report" /\ pc' = "notify"
            \/ pc = "notify" /\ pc' \in {"loop", "crashed"}
       /\ idx' # idx => (pc = "loop" /\ idx' = idx + 1)]_vars

====
